---- MODULE Spec2Model ----
(***************************************************************************)
(* A model of qstr: stack-allocated strings (BoundedStr, FixedStr) and the *)
(* bitmap-indexed string vector StrVec.                                    *)
(*                                                                         *)
(* Strings are sequences of bytes (naturals below 256).  A buffer          *)
(* `[u8; N]` is a sequence of length N; the Rust index k is the TLA+ index *)
(* k + 1, and the Rust slice data[a..b] is Slice(data, a, b).              *)
(***************************************************************************)
EXTENDS Integers, Sequences, FiniteSets, TLC

VARIABLES
  recv,     \* what this behaviour exercises: "vec", "bstr", "fstr", "pair", "split",
            \* "iter", "span" or "bpair"
  vec,      \* the StrVec under test: [bitmap, data]
  other,    \* a second StrVec of the same type
  pushed,   \* history: arguments of the successful pushes into vec since new()/clear()
  bstr,     \* the BoundedStr under test: [length, data]
  content,  \* history: initial text of bstr followed by the successfully pushed text
  fstr,     \* the FixedStr under test: [data]
  call,     \* the last call made: [op, arg, ch]
  res,      \* what the last call returned
  prev,     \* the receiver as it was before the last call
  split,    \* the frame of a running bstr.split(): [pc, delimiter, start, i, result]
  it,       \* the frame of an iterator made by vec.iter(): [pc, offset, bitmap, i, len, ...]
  scan,     \* the frame of a running find_nth_span(n): [pc, self, n, value, start, count, ...]
  acc,      \* the bit offsets and buffer slices that the last vector operation used
  bother    \* a second BoundedStr of the same type

vars == <<recv, vec, other, pushed, bstr, content, fstr, call, res, prev, split,
          it, scan, acc, bother>>

(***************************************************************************)
(* Bounds of the model                                                     *)
(***************************************************************************)

\* Capacity of the containers (the const generic N).
N == 3

\* Bitmap width of the vector: the u8 bitmap.
W == 8

\* Bytes that strings are drawn from: NUL and 'a'.
Bytes == {0, 97}

\* All byte strings over alpha of length at most n.
Strs(alpha, n) == UNION {[1..k -> alpha] : k \in 0..n}

\* Longest argument of an append that mixes bytes freely.
MaxArg == 2

\* "a" repeated n times.
Run(n) == [k \in 1..n |-> 97]

\* Arguments handed to the appends: every short string, and runs of 'a' up to
\* one byte more than the capacity.
Args == Strs(Bytes, MaxArg) \cup {Run(n) : n \in 0..(N + 1)}

\* Arguments handed to the constructors: every string up to one byte more than
\* the capacity.
CtorArgs == Strs(Bytes, N + 1)

(***************************************************************************)
(* Helpers for Rust's core types                                           *)
(***************************************************************************)

\* 1 << k
Pow2(k) == 2 ^ k

Max(a, b) == IF a >= b THEN a ELSE b

\* data[a..b]
Slice(data, a, b) == SubSeq(data, a + 1, b)

\* data[offset..offset + s.len()].copy_from_slice(s)
CopyFromSlice(data, offset, s) ==
  [k \in 1..Len(data) |->
     IF k > offset /\ k <= offset + Len(s) THEN s[k - offset] ELSE data[k]]

\* [0u8; n]
Zeroed(n) == [k \in 1..n |-> 0]

\* Result<(), ExceedsCapacity> and Option<_>, in one record shape.
Ok == [tag |-> "Ok", length |-> 0, capacity |-> 0, val |-> <<>>]
OkVal(v) == [tag |-> "Ok", length |-> 0, capacity |-> 0, val |-> v]
ExceedsCapacity(l, c) == [tag |-> "Err", length |-> l, capacity |-> c, val |-> <<>>]
None == [tag |-> "None", length |-> 0, capacity |-> 0, val |-> <<>>]
Some(v) == [tag |-> "Some", length |-> 0, capacity |-> 0, val |-> v]

(***************************************************************************)
(* Bitmap (bitmap.rs), for the u8 implementation.  Position 0 is the most  *)
(* significant bit.                                                        *)
(***************************************************************************)

\* Whether the bit at position p is set.
BitAt(value, p) == (value \div Pow2(W - 1 - p)) % 2 = 1

\* A mask that counts positions from the least significant bit.
MaskFromLsb(offset) == Pow2(offset % W)

\* 1 as $t << ($bits - 1 - offset); the shift amount wraps as in a release build.
Mask(offset) == Pow2((W - 1 - offset) % W)

\* Bitmap::set
Set(value, offset) ==
  IF (value \div Mask(offset)) % 2 = 1 THEN value ELSE value + Mask(offset)

\* Bitmap::unset
Unset(value, offset) ==
  IF (value \div Mask(offset)) % 2 = 1 THEN value - Mask(offset) ELSE value

\* <$t>::leading_zeros
RECURSIVE LeadingZerosFrom(_, _)
LeadingZerosFrom(value, p) ==
  IF p >= W \/ BitAt(value, p) THEN p ELSE LeadingZerosFrom(value, p + 1)

LeadingZeros(value) == LeadingZerosFrom(value, 0)

\* A trailing_zeros that counts from the most significant end.
TrailingZerosAsLeading(value) == LeadingZeros(value)

\* <$t>::trailing_zeros
RECURSIVE TrailingZerosFrom(_, _)
TrailingZerosFrom(value, k) ==
  IF k >= W \/ (value \div Pow2(k)) % 2 = 1 THEN k ELSE TrailingZerosFrom(value, k + 1)

TrailingZeros(value) == TrailingZerosFrom(value, 0)

\* <$t>::count_ones
CountOnes(value) == Cardinality({p \in 0..(W - 1) : BitAt(value, p)})

\* The loop of find_nth_span: the state is (value, start, count).
RECURSIVE FindNthSpanLoop(_, _, _, _)
FindNthSpanLoop(value, start, count, n) ==
  IF value = 0 THEN None
  ELSE LET end == LeadingZeros(value) IN
       IF count = n THEN Some(<<start, end + 1>>)
       ELSE FindNthSpanLoop(Unset(value, end), end + 1, count + 1, n)

\* Bitmap::find_nth_span
FindNthSpan(value, n) == FindNthSpanLoop(value, 0, 0, n)

(***************************************************************************)
(* StrVec (str_vec.rs)                                                     *)
(***************************************************************************)

\* StrVec::new
StrVecNew == [bitmap |-> 0, data |-> Zeroed(N)]

\* StrVec::len
VecLen(v) == CountOnes(v.bitmap)

\* A clear that zeroes the buffer and leaves the bitmap.
ClearDataOnly(v) == [bitmap |-> v.bitmap, data |-> Zeroed(N)]

\* A clear that zeroes the bitmap and leaves the buffer.
ClearBitmapOnly(v) == [bitmap |-> 0, data |-> v.data]

\* StrVec::clear: `*self = Self::new()`
Clear(v) == StrVecNew

\* A next_offset that takes the item count for the bytes in use.
NextOffsetByCount(v) == CountOnes(v.bitmap)

\* StrVec::next_offset
NextOffset(v) == W - TrailingZeros(v.bitmap)

\* A stored form that pads an empty string with a space instead of NUL.
StoredAsSpace(s) == IF s = <<>> THEN <<32>> ELSE s

\* A stored form that keeps an empty string empty.
StoredAsIs(s) == s

\* The stored form of a pushed string: `if s.is_empty() { "\0" } else { s }`
Stored(s) == IF s = <<>> THEN <<0>> ELSE s

\* The offsets handed to Bitmap::set and Bitmap::unset and the slices
\* data[lo..hi] taken by one operation of the vector.
Access(set, unset, slices) == [set |-> set, unset |-> unset, slices |-> slices]
NoAccess == Access({}, {}, {})

\* A push whose capacity test is off by one (>= for >).
PushOffByOne(v, s0) ==
  LET s == IF s0 = <<>> THEN <<0>> ELSE s0
      offset == W - TrailingZeros(v.bitmap)
      str_len == Len(s)
  IN IF offset + str_len >= N
     THEN [vec |-> v, res |-> ExceedsCapacity(offset + str_len, N), acc |-> NoAccess]
     ELSE [vec |-> [bitmap |-> Set(v.bitmap, offset + str_len - 1),
                    data |-> CopyFromSlice(v.data, offset, s)],
           res |-> Ok,
           acc |-> Access({offset + str_len - 1}, {}, {<<offset, offset + str_len>>})]

\* StrVec::push: the vector afterwards, the result returned, and the bit and
\* the slice it touched.
Push(v, s0) ==
  LET s == Stored(s0)
      offset == NextOffset(v)
      str_len == Len(s)
  IN IF offset + str_len > N
     THEN [vec |-> v, res |-> ExceedsCapacity(offset + str_len, N), acc |-> NoAccess]
     ELSE [vec |-> [bitmap |-> Set(v.bitmap, offset + str_len - 1),
                    data |-> CopyFromSlice(v.data, offset, s)],
           res |-> Ok,
           acc |-> Access({offset + str_len - 1}, {}, {<<offset, offset + str_len>>})]

\* A decoding that drops one trailing NUL of any span.
DecodeTrimNul(span) ==
  IF span # <<>> /\ span[Len(span)] = 0 THEN SubSeq(span, 1, Len(span) - 1) ELSE span

\* The decoding of a span shared by get and iter: `if span == [0] { "" } else { span }`
Decode(span) == IF span = <<0>> THEN <<>> ELSE span

\* StrVec::get
Get(v, index) ==
  LET sp == FindNthSpan(v.bitmap, index) IN
  IF sp.tag = "None" THEN None
  ELSE Some(Decode(Slice(v.data, sp.val[1], sp.val[2])))

\* The closure of iter(), applied k more times from (offset, bitmap).
RECURSIVE IterFrom(_, _, _, _)
IterFrom(data, bitmap, offset, k) ==
  IF k = 0 THEN <<>>
  ELSE LET end == LeadingZeros(bitmap) IN
       <<Decode(Slice(data, offset, end + 1))>>
         \o IterFrom(data, Unset(bitmap, end), end + 1, k - 1)

\* StrVec::iter, collected
Iter(v) == IterFrom(v.data, v.bitmap, 0, VecLen(v))


(***************************************************************************)
(* BoundedStr (bounded_str.rs)                                             *)
(***************************************************************************)

\* `x as u8`
AsU8(x) == x % 256

\* char::encode_utf8, as called by BoundedStr::push
EncodeUtf8(c) ==
  IF c < 128 THEN <<c>>
  ELSE IF c < 2048 THEN <<192 + (c \div 64), 128 + (c % 64)>>
  ELSE IF c < 65536
    THEN <<224 + (c \div 4096), 128 + ((c \div 64) % 64), 128 + (c % 64)>>
  ELSE <<240 + (c \div 262144), 128 + ((c \div 4096) % 64),
         128 + ((c \div 64) % 64), 128 + (c % 64)>>

\* BoundedStr::new
BoundedStrNew == [length |-> 0, data |-> Zeroed(N)]

\* A try_from that records the capacity as the length.
BoundedTryFromFullLength(s) ==
  LET length == Len(s) IN
  IF length > N THEN ExceedsCapacity(length, N)
  ELSE OkVal([length |-> AsU8(N), data |-> CopyFromSlice(Zeroed(N), 0, s)])

\* BoundedStr::try_from
BoundedTryFrom(s) ==
  LET length == Len(s) IN
  IF length > N THEN ExceedsCapacity(length, N)
  ELSE OkVal([length |-> AsU8(length), data |-> CopyFromSlice(Zeroed(N), 0, s)])

\* BoundedStr::const_try_from
BoundedConstTryFrom(s) ==
  LET length == Len(s) IN
  IF length > N THEN None
  ELSE Some([length |-> AsU8(length), data |-> CopyFromSlice(Zeroed(N), 0, s)])

\* BoundedStr::len
BoundedLen(b) == b.length

\* A push_str that writes the bytes that fit before it reports the overflow.
PushStrTruncating(b, s) ==
  LET length == b.length
      new_len == length + Len(s)
  IN IF new_len > N
     THEN [bstr |-> [length |-> AsU8(N),
                     data |-> CopyFromSlice(b.data, length, SubSeq(s, 1, N - length))],
           res |-> ExceedsCapacity(new_len, N)]
     ELSE [bstr |-> [length |-> AsU8(new_len), data |-> CopyFromSlice(b.data, length, s)],
           res |-> Ok]

\* BoundedStr::push_str: the string afterwards and the result returned.
PushStr(b, s) ==
  LET length == b.length
      new_len == length + Len(s)
  IN IF new_len > N
     THEN [bstr |-> b, res |-> ExceedsCapacity(new_len, N)]
     ELSE [bstr |-> [length |-> AsU8(new_len), data |-> CopyFromSlice(b.data, length, s)],
           res |-> Ok]

\* A push that appends `c as u8`, the low byte of the character.
PushCharAsByte(b, c) == PushStr(b, <<AsU8(c)>>)

\* BoundedStr::push
PushChar(b, c) == PushStr(b, EncodeUtf8(c))

\* BoundedStr::as_str
AsStr(b) == Slice(b.data, 0, b.length)

(***************************************************************************)
(* FixedStr (fixed_str.rs)                                                 *)
(***************************************************************************)

\* FixedStr::new
FixedStrNew == [data |-> Zeroed(N)]

\* A try_from that refuses a string as long as the capacity (>= for >).
FixedTryFromStrict(s) ==
  LET length == Len(s) IN
  IF length >= N THEN ExceedsCapacity(length, N)
  ELSE OkVal([data |-> CopyFromSlice(Zeroed(N), 0, s)])

\* FixedStr::try_from
FixedTryFrom(s) ==
  LET length == Len(s) IN
  IF length > N THEN ExceedsCapacity(length, N)
  ELSE OkVal([data |-> CopyFromSlice(Zeroed(N), 0, s)])

\* FixedStr::const_try_from
FixedConstTryFrom(s) ==
  LET length == Len(s) IN
  IF length > N THEN None
  ELSE Some([data |-> CopyFromSlice(Zeroed(N), 0, s)])

\* FixedStr::as_str
FixedAsStr(f) == f.data

\* self.data.iter().position(|&b| b == 0).unwrap_or(self.data.len())
RECURSIVE PositionOfNul(_, _)
PositionOfNul(data, k) ==
  IF k >= Len(data) THEN Len(data)
  ELSE IF data[k + 1] = 0 THEN k
  ELSE PositionOfNul(data, k + 1)

\* An as_str_trimmed that returns the whole buffer.
AsStrUntrimmed(f) == f.data

\* FixedStr::as_str_trimmed
AsStrTrimmed(f) == Slice(f.data, 0, PositionOfNul(f.data, 0))

(***************************************************************************)
(* One value under the calls of its API.  Values are plain copies that     *)
(* share no storage, so each behaviour exercises one value: a StrVec, a    *)
(* BoundedStr or a FixedStr, as recv says.                                 *)
(***************************************************************************)

\* The characters handed to BoundedStr::push: 'a', U+00E9 and U+20AC.
Chars == {97, 233, 8364}

NoCall == [op |-> "none", arg |-> <<>>, ch |-> 0]

\* No split is running.
NoSplit == [pc |-> "idle", delimiter |-> <<>>, start |-> 0, i |-> 0, result |-> StrVecNew]

\* No iterator is alive, and none has run to its end on the vector as it is now.
NoIter ==
  [pc |-> "idle", offset |-> 0, bitmap |-> 0, i |-> 0, len |-> 0,
   yielded |-> <<>>, src |-> StrVecNew, last |-> None]

\* No find_nth_span is running.
NoScan ==
  [pc |-> "idle", self |-> 0, arg |-> 0, n |-> 0,
   value |-> 0, start |-> 0, count |-> 0, iterations |-> 0, ret |-> None]

Init ==
  /\ recv \in {"vec", "bstr", "fstr"}
  /\ vec = StrVecNew
  /\ other = StrVecNew
  /\ pushed = <<>>
  /\ bstr = BoundedStrNew
  /\ content = <<>>
  /\ fstr = FixedStrNew
  /\ call = NoCall
  /\ res = Ok
  /\ prev = IF recv = "vec" THEN StrVecNew
            ELSE IF recv = "bstr" THEN BoundedStrNew ELSE FixedStrNew
  /\ split = NoSplit
  /\ it = NoIter
  /\ scan = NoScan
  /\ acc = NoAccess
  /\ bother = BoundedStrNew

\* vec.push(s)
PushOp(s) ==
  LET r == Push(vec, s) IN
  /\ recv = "vec"
  /\ vec' = r.vec
  /\ res' = r.res
  /\ pushed' = IF r.res.tag = "Ok" THEN Append(pushed, s) ELSE pushed
  /\ call' = [op |-> "StrVec::push", arg |-> s, ch |-> 0]
  /\ prev' = vec
  /\ UNCHANGED <<bother, it, scan, acc, split, recv, other, bstr, content, fstr>>

\* vec.clear()
ClearOp ==
  /\ recv = "vec"
  /\ vec' = Clear(vec)
  /\ pushed' = <<>>
  /\ res' = Ok
  /\ call' = [op |-> "StrVec::clear", arg |-> <<>>, ch |-> 0]
  /\ prev' = vec
  /\ UNCHANGED <<bother, it, scan, acc, split, recv, other, bstr, content, fstr>>

\* bstr = BoundedStr::try_from(s)?  (bstr keeps its value when the call fails)
BoundedTryFromOp(s) ==
  LET r == BoundedTryFrom(s) IN
  /\ recv = "bstr"
  /\ res' = r
  /\ bstr' = IF r.tag = "Ok" THEN r.val ELSE bstr
  /\ content' = IF r.tag = "Ok" THEN s ELSE content
  /\ call' = [op |-> "BoundedStr::try_from", arg |-> s, ch |-> 0]
  /\ prev' = bstr
  /\ UNCHANGED <<bother, it, scan, acc, split, recv, vec, other, pushed, fstr>>

\* if let Some(b) = BoundedStr::const_try_from(s) { bstr = b }
BoundedConstTryFromOp(s) ==
  LET r == BoundedConstTryFrom(s) IN
  /\ recv = "bstr"
  /\ res' = r
  /\ bstr' = IF r.tag = "Some" THEN r.val ELSE bstr
  /\ content' = IF r.tag = "Some" THEN s ELSE content
  /\ call' = [op |-> "BoundedStr::const_try_from", arg |-> s, ch |-> 0]
  /\ prev' = bstr
  /\ UNCHANGED <<bother, it, scan, acc, split, recv, vec, other, pushed, fstr>>

\* bstr.push_str(s)
PushStrOp(s) ==
  LET r == PushStr(bstr, s) IN
  /\ recv = "bstr"
  /\ bstr' = r.bstr
  /\ res' = r.res
  /\ content' = IF r.res.tag = "Ok" THEN content \o s ELSE content
  /\ call' = [op |-> "BoundedStr::push_str", arg |-> s, ch |-> 0]
  /\ prev' = bstr
  /\ UNCHANGED <<bother, it, scan, acc, split, recv, vec, other, pushed, fstr>>

\* bstr.push(c)
PushCharOp(c) ==
  LET r == PushChar(bstr, c) IN
  /\ recv = "bstr"
  /\ bstr' = r.bstr
  /\ res' = r.res
  /\ content' = IF r.res.tag = "Ok" THEN content \o EncodeUtf8(c) ELSE content
  /\ call' = [op |-> "BoundedStr::push", arg |-> EncodeUtf8(c), ch |-> c]
  /\ prev' = bstr
  /\ UNCHANGED <<bother, it, scan, acc, split, recv, vec, other, pushed, fstr>>

\* fstr = FixedStr::try_from(s)?
FixedTryFromOp(s) ==
  LET r == FixedTryFrom(s) IN
  /\ recv = "fstr"
  /\ res' = r
  /\ fstr' = IF r.tag = "Ok" THEN r.val ELSE fstr
  /\ call' = [op |-> "FixedStr::try_from", arg |-> s, ch |-> 0]
  /\ prev' = fstr
  /\ UNCHANGED <<bother, it, scan, acc, split, recv, vec, other, pushed, bstr, content>>

\* if let Some(f) = FixedStr::const_try_from(s) { fstr = f }
FixedConstTryFromOp(s) ==
  LET r == FixedConstTryFrom(s) IN
  /\ recv = "fstr"
  /\ res' = r
  /\ fstr' = IF r.tag = "Some" THEN r.val ELSE fstr
  /\ call' = [op |-> "FixedStr::const_try_from", arg |-> s, ch |-> 0]
  /\ prev' = fstr
  /\ UNCHANGED <<bother, it, scan, acc, split, recv, vec, other, pushed, bstr, content>>

Next ==
  \/ \E s \in Args : PushOp(s)
  \/ ClearOp
  \/ \E s \in CtorArgs : BoundedTryFromOp(s)
  \/ \E s \in CtorArgs : BoundedConstTryFromOp(s)
  \/ \E s \in Args : PushStrOp(s)
  \/ \E c \in Chars : PushCharOp(c)
  \/ \E s \in CtorArgs : FixedTryFromOp(s)
  \/ \E s \in CtorArgs : FixedConstTryFromOp(s)

Spec == Init /\ [][Next]_vars

(***************************************************************************)
(* Properties of one value under its API                                   *)
(***************************************************************************)

\* What a pushed string reads back as: "" and "\0" both read back as "".
ReadBack(s) == IF s = <<>> \/ s = <<0>> THEN <<>> ELSE s

\* C1: after the pushes s0..sk into a vector that started from new(), get(i)
\* returns si for every i in 0..k (an empty si and the single NUL byte read back
\* as the empty string), iter() yields the same sequence in order, and get(k+1)
\* is None.
C1_PushThenRead ==
  recv = "vec" =>
    /\ \A k \in 1..Len(pushed) : Get(vec, k - 1) = Some(ReadBack(pushed[k]))
    /\ Iter(vec) = [k \in 1..Len(pushed) |-> ReadBack(pushed[k])]
    /\ Get(vec, Len(pushed)) = None

\* C1 witness: three pushes succeeded, among them an empty string and "\0".
C1_Witness ==
  /\ recv = "vec"
  /\ Len(pushed) = 3
  /\ pushed[1] = <<97>>
  /\ pushed[2] = <<>>
  /\ pushed[3] = <<0>>

\* The bytes the strings of a history take in a vector: max(1, len) each.
RECURSIVE BytesUsed(_)
BytesUsed(h) == IF h = <<>> THEN 0 ELSE Max(1, Len(Head(h))) + BytesUsed(Tail(h))

\* The bytes in use before the last push.
UsedBefore ==
  IF res.tag = "Ok" THEN BytesUsed(SubSeq(pushed, 1, Len(pushed) - 1))
  ELSE BytesUsed(pushed)

\* C2: push(s) with u bytes in use fails exactly when u + max(1, len(s)) > N, and
\* then returns ExceedsCapacity{length: u + max(1, len(s)), capacity: N}; a vector
\* holding N items of at most one byte refuses one more with (N+1, N).
C2_PushFailsExactlyOverCapacity ==
  (recv = "vec" /\ call.op = "StrVec::push") =>
    LET total == UsedBefore + Max(1, Len(call.arg)) IN
    /\ (res.tag = "Err") <=> (total > N)
    /\ (res.tag = "Err") => (res = ExceedsCapacity(total, N))
    /\ (res.tag = "Err" /\ Len(pushed) = N /\ Len(call.arg) <= 1)
         => (res = ExceedsCapacity(N + 1, N))

\* C2 witness: N empty or one-byte items were accepted and one more empty push
\* was refused.
C2_Witness ==
  /\ recv = "vec"
  /\ call.op = "StrVec::push"
  /\ call.arg = <<>>
  /\ res.tag = "Err"
  /\ Len(pushed) = N

\* C3: an append that fails with ExceedsCapacity leaves the receiver as it was:
\* the length field or bitmap and every buffer byte.
C3_FailedAppendChangesNothing ==
  (res.tag = "Err"
     /\ call.op \in {"StrVec::push", "BoundedStr::push_str", "BoundedStr::push"})
    => /\ recv = "vec" => vec = prev
       /\ recv = "bstr" => bstr = prev

\* C3 witness: a multi-byte character that only partly fits was refused.
C3_Witness ==
  /\ recv = "bstr"
  /\ call.op = "BoundedStr::push"
  /\ res.tag = "Err"
  /\ Len(call.arg) > 1
  /\ prev.length < N
  /\ prev.length > 0

\* C5: for every s with len(s) <= N, BoundedStr::try_from(s) and
\* const_try_from(s) succeed, as_str() of the result is s and len() is len(s).
C5_BoundedRoundTrip ==
  (call.op \in {"BoundedStr::try_from", "BoundedStr::const_try_from"}
     /\ Len(call.arg) <= N)
    => /\ res.tag \in {"Ok", "Some"}
       /\ AsStr(res.val) = call.arg
       /\ BoundedLen(res.val) = Len(call.arg)

\* C5 witness: const_try_from built a string that fills the capacity.
C5_Witness ==
  /\ call.op = "BoundedStr::const_try_from"
  /\ Len(call.arg) = N
  /\ res.tag = "Some"

HasNul(s) == \E k \in 1..Len(s) : s[k] = 0

\* C6 as stated: for every s with len(s) <= N, FixedStr::try_from(s) succeeds and
\* as_str_trimmed() of the result is s.
C6_FixedRoundTripAnyString ==
  (call.op = "FixedStr::try_from" /\ Len(call.arg) <= N)
    => /\ res.tag = "Ok"
       /\ AsStrTrimmed(res.val) = call.arg

\* C6 as amended: for every s with len(s) <= N that holds no NUL byte,
\* FixedStr::try_from(s) succeeds and as_str_trimmed() of the result is s.
C6_FixedRoundTripNoNul ==
  (call.op = "FixedStr::try_from" /\ Len(call.arg) <= N /\ ~HasNul(call.arg))
    => /\ res.tag = "Ok"
       /\ AsStrTrimmed(res.val) = call.arg

\* C6 witness: a NUL-free string that fills the buffer, so that no NUL is found.
C6_Witness ==
  /\ call.op = "FixedStr::try_from"
  /\ call.arg = Run(N)
  /\ res.tag = "Ok"

\* C7: try_from(s) of BoundedStr and of FixedStr succeeds when len(s) <= N and
\* fails exactly when len(s) > N, with ExceedsCapacity{len(s), N}; const_try_from
\* is None in the same cases and otherwise equal to what try_from returns.
C7_ConstructorBoundary ==
  /\ call.op \in {"BoundedStr::try_from", "FixedStr::try_from"}
       => IF Len(call.arg) > N
          THEN res = ExceedsCapacity(Len(call.arg), N)
          ELSE res.tag = "Ok"
  /\ call.op = "BoundedStr::const_try_from"
       => IF Len(call.arg) > N
          THEN res = None /\ BoundedTryFrom(call.arg).tag = "Err"
          ELSE res.tag = "Some" /\ OkVal(res.val) = BoundedTryFrom(call.arg)
  /\ call.op = "FixedStr::const_try_from"
       => IF Len(call.arg) > N
          THEN res = None /\ FixedTryFrom(call.arg).tag = "Err"
          ELSE res.tag = "Some" /\ OkVal(res.val) = FixedTryFrom(call.arg)

\* C7 witness: FixedStr::try_from refused a string of N + 1 bytes.
C7_Witness ==
  /\ call.op = "FixedStr::try_from"
  /\ Len(call.arg) = N + 1
  /\ res = ExceedsCapacity(N + 1, N)

\* C8: after any sequence of push_str and push calls from new() or a successful
\* try_from, the length field is at most N and as_str() is the initial content
\* followed by the arguments of the successful calls, in call order.
C8_BoundedContent ==
  recv = "bstr" =>
    /\ bstr.length <= N
    /\ AsStr(bstr) = content

\* C8 witness: a push of a multi-byte character filled a string that a
\* constructor or an earlier push had started.
C8_Witness ==
  /\ recv = "bstr"
  /\ call.op = "BoundedStr::push"
  /\ res.tag = "Ok"
  /\ Len(call.arg) = 2
  /\ bstr.length = N

\* C9: from any vector state push("") and push("\0") return the same result and
\* leave the same bitmap and buffer, and the pushed item reads back as "".
C9_EmptyIsNul ==
  recv = "vec" =>
    /\ Push(vec, <<>>) = Push(vec, <<0>>)
    /\ (call.op = "StrVec::push" /\ res.tag = "Ok" /\ call.arg \in {<<>>, <<0>>})
         => /\ vec = Push(prev, <<>>).vec
            /\ vec = Push(prev, <<0>>).vec
            /\ Get(vec, VecLen(vec) - 1) = Some(<<>>)

\* C9 witness: "\0" was pushed after another item.
C9_Witness ==
  /\ recv = "vec"
  /\ call.op = "StrVec::push"
  /\ call.arg = <<0>>
  /\ res.tag = "Ok"
  /\ Len(pushed) = 2

(***************************************************************************)
(* Two vectors of one type, each under push and clear, and their           *)
(* comparison (str_vec.rs, the derived PartialEq and the impls of Hash and *)
(* Ord).                                                                   *)
(***************************************************************************)

\* #[derive(PartialEq, Eq)] on StrVec: field by field (align is zero-sized).
VecEq(a, b) == a.bitmap = b.bitmap /\ a.data = b.data

\* <[u8; N] as Ord>::cmp: lexicographic, from index k on.
RECURSIVE ArrayCmpFrom(_, _, _)
ArrayCmpFrom(x, y, k) ==
  IF k > Len(x) THEN "Equal"
  ELSE IF x[k] < y[k] THEN "Less"
  ELSE IF x[k] > y[k] THEN "Greater"
  ELSE ArrayCmpFrom(x, y, k + 1)

\* <StrVec as Ord>::cmp
Cmp(a, b) == ArrayCmpFrom(a.data, b.data, 1)

\* <StrVec as Hash>::hash: what is fed to the hasher.
HashFed(v) == v.data

InitPair ==
  /\ recv = "pair"
  /\ vec = StrVecNew
  /\ other = StrVecNew
  /\ pushed = <<>>
  /\ bstr = BoundedStrNew
  /\ content = <<>>
  /\ fstr = FixedStrNew
  /\ call = NoCall
  /\ res = Ok
  /\ prev = StrVecNew
  /\ split = NoSplit
  /\ it = NoIter
  /\ scan = NoScan
  /\ acc = NoAccess
  /\ bother = BoundedStrNew

\* let _ = vec.push(s)
PairPushVec(s) ==
  /\ recv = "pair"
  /\ vec' = Push(vec, s).vec
  /\ UNCHANGED <<bother, it, scan, acc, split, recv, other, pushed, bstr, content, fstr, call, res, prev>>

\* let _ = other.push(s)
PairPushOther(s) ==
  /\ recv = "pair"
  /\ other' = Push(other, s).vec
  /\ UNCHANGED <<bother, it, scan, acc, split, recv, vec, pushed, bstr, content, fstr, call, res, prev>>

\* vec.clear()
PairClearVec ==
  /\ recv = "pair"
  /\ vec' = Clear(vec)
  /\ UNCHANGED <<bother, it, scan, acc, split, recv, other, pushed, bstr, content, fstr, call, res, prev>>

\* other.clear()
PairClearOther ==
  /\ recv = "pair"
  /\ other' = Clear(other)
  /\ UNCHANGED <<bother, it, scan, acc, split, recv, vec, pushed, bstr, content, fstr, call, res, prev>>

NextPair ==
  \/ \E s \in Args : PairPushVec(s)
  \/ \E s \in Args : PairPushOther(s)
  \/ PairClearVec
  \/ PairClearOther

SpecPair == InitPair /\ [][NextPair]_vars

\* C10: for two vectors of one type reachable by push and clear, cmp(a, b) is
\* Equal exactly when a == b, and equal vectors hash equally.
C10_CmpEqualIffEq ==
  recv = "pair" =>
    /\ (Cmp(vec, other) = "Equal") <=> VecEq(vec, other)
    /\ VecEq(vec, other) => (HashFed(vec) = HashFed(other))

\* C11: for two vectors of one type, each reached from new() by push and clear
\* calls (failed pushes included), a == b holds exactly when their decoded item
\* sequences (iter()) are equal.
C11_EqualIffSameItems ==
  recv = "pair" => (VecEq(vec, other) <=> (Iter(vec) = Iter(other)))

\* C11 witness: two equal vectors of two items, the first of them empty.
C11_Witness ==
  /\ recv = "pair"
  /\ VecEq(vec, other)
  /\ VecLen(vec) = 2
  /\ Get(vec, 0) = Some(<<>>)

(***************************************************************************)
(* BoundedStr::split (bounded_str.rs), one loop iteration per step.  The   *)
(* string is built by try_from and is borrowed while split runs.           *)
(***************************************************************************)

\* Bytes of the strings that are split and of the delimiters: NUL, ',' and 'a'.
SplitBytes == {0, 44, 97}

\* Longest delimiter.
MaxDelim == 2

SplitSrcs == Strs(SplitBytes, N)

Delims == Strs(SplitBytes, MaxDelim)

InitSplit ==
  /\ recv = "split"
  /\ vec = StrVecNew
  /\ other = StrVecNew
  /\ pushed = <<>>
  /\ bstr = BoundedStrNew
  /\ content = <<>>
  /\ fstr = FixedStrNew
  /\ call = NoCall
  /\ res = Ok
  /\ prev = BoundedStrNew
  /\ split = NoSplit
  /\ it = NoIter
  /\ scan = NoScan
  /\ acc = NoAccess
  /\ bother = BoundedStrNew

\* bstr = BoundedStr::try_from(s)?
SplitSource(s) ==
  LET r == BoundedTryFrom(s) IN
  /\ recv = "split"
  /\ split.pc = "idle"
  /\ bstr' = IF r.tag = "Ok" THEN r.val ELSE bstr
  /\ content' = IF r.tag = "Ok" THEN s ELSE content
  /\ UNCHANGED <<bother, it, scan, acc, split, recv, vec, other, pushed, fstr, call, res, prev>>

\* bstr.split(delimiter): entry, up to the loop.
SplitBegin(delimiter) ==
  /\ recv = "split"
  /\ split.pc = "idle"
  /\ split' = [pc |-> "scan", delimiter |-> delimiter, start |-> 0, i |-> 0,
               result |-> StrVecNew]
  /\ UNCHANGED <<bother, it, scan, acc, recv, vec, other, pushed, bstr, content, fstr, call, res, prev>>

\* One iteration of `while i < self.length`.  The window self.data[i..i + len]
\* panics when it ends past the buffer; unwrap() panics when push fails.
SplitStep ==
  LET d == split.delimiter
      i == split.i
      s == AsStr(bstr)
  IN
  /\ recv = "split"
  /\ split.pc = "scan"
  /\ i < bstr.length
  /\ IF i + Len(d) > N
     THEN split' = [split EXCEPT !.pc = "panic"]
     ELSE IF Slice(bstr.data, i, i + Len(d)) = d
     THEN LET r == Push(split.result, Slice(s, split.start, i)) IN
          IF r.res.tag = "Err"
          THEN split' = [split EXCEPT !.pc = "panic"]
          ELSE split' = [split EXCEPT !.result = r.vec,
                                      !.start = i + Len(d),
                                      !.i = i + Len(d)]
     ELSE split' = [split EXCEPT !.i = i + 1]
  /\ UNCHANGED <<bother, it, scan, acc, recv, vec, other, pushed, bstr, content, fstr, call, res, prev>>

\* After the loop: the trailing segment, and the return.
SplitEnd ==
  LET s == AsStr(bstr) IN
  /\ recv = "split"
  /\ split.pc = "scan"
  /\ split.i >= bstr.length
  /\ IF split.start <= bstr.length
     THEN LET r == Push(split.result, Slice(s, split.start, Len(s))) IN
          IF r.res.tag = "Err"
          THEN split' = [split EXCEPT !.pc = "panic"]
          ELSE split' = [split EXCEPT !.pc = "done", !.result = r.vec]
     ELSE split' = [split EXCEPT !.pc = "done"]
  /\ UNCHANGED <<bother, it, scan, acc, recv, vec, other, pushed, bstr, content, fstr, call, res, prev>>

NextSplit ==
  \/ \E s \in SplitSrcs : SplitSource(s)
  \/ \E d \in Delims : SplitBegin(d)
  \/ SplitStep
  \/ SplitEnd

SpecSplit == InitSplit /\ [][NextSplit]_vars

\* Whether d occurs in s at the 0-based position k.
MatchesAt(s, d, k) == k + Len(d) <= Len(s) /\ SubSeq(s, k + 1, k + Len(d)) = d

\* Left-to-right substring splitting of s by the non-empty d, from position
\* pos on with the current segment starting at from: each match ends a segment
\* and the scan goes on after it; what is left is the last segment.
RECURSIVE GenericSplitFrom(_, _, _, _)
GenericSplitFrom(s, d, from, pos) ==
  IF pos + Len(d) > Len(s) THEN <<SubSeq(s, from + 1, Len(s))>>
  ELSE IF MatchesAt(s, d, pos)
    THEN <<SubSeq(s, from + 1, pos)>>
           \o GenericSplitFrom(s, d, pos + Len(d), pos + Len(d))
  ELSE GenericSplitFrom(s, d, from, pos + 1)

GenericSplit(s, d) == GenericSplitFrom(s, d, 0, 0)

\* C4: for every BoundedStr v and every non-empty delimiter d, v.split(d)
\* yields, in order, exactly the segments of left-to-right substring splitting of
\* v.as_str() by d.
\* (A segment is compared as the vector reads it back, "\0" as "".)
C4_SplitIsGenericSplit ==
  (recv = "split" /\ split.pc \in {"done", "panic"} /\ split.delimiter # <<>>)
    => LET expected == GenericSplit(AsStr(bstr), split.delimiter) IN
       /\ split.pc = "done"
       /\ Iter(split.result) = [k \in 1..Len(expected) |-> ReadBack(expected[k])]

\* C21: for every BoundedStr and every non-empty delimiter, split does not
\* abort: every window data[i..i + len(delimiter)] it reads stays inside the
\* N-byte buffer, and every push into the result vector, the push of the
\* trailing segment included, succeeds.
C21_SplitNeverAborts ==
  (recv = "split" /\ split.delimiter # <<>>) =>
    /\ (split.pc = "scan" /\ split.i < bstr.length)
         => (split.i + Len(split.delimiter) <= N)
    /\ split.pc # "panic"

\* C22: for every delimiter, the empty one included, each iteration of the scan
\* loop strictly increases the cursor (so the loop, which runs while the cursor
\* is below the length, ends after at most length iterations), and split does
\* not end without returning a result vector.
C22_SplitMakesProgress ==
  [][(recv = "split" /\ split.pc = "scan")
       => /\ (split'.pc = "scan") => (split'.i > split.i)
          /\ split'.pc # "panic"]_vars

(***************************************************************************)
(* Invariants of the vector's encoding                                     *)
(***************************************************************************)

\* The vector that the pushes of a history build from new().
RECURSIVE Replay(_)
Replay(h) ==
  IF h = <<>> THEN StrVecNew
  ELSE Push(Replay(SubSeq(h, 1, Len(h) - 1)), h[Len(h)]).vec

\* C13: clear() resets a vector to the new() state from any reachable state, so
\* len() is 0 and get(0) is None, and the pushes made after it give the state
\* that the same pushes give on a fresh vector.
C13_ClearIsNew ==
  recv = "vec" =>
    /\ call.op = "StrVec::clear"
         => /\ vec = StrVecNew
            /\ VecLen(vec) = 0
            /\ Get(vec, 0) = None
    /\ vec = Replay(pushed)

\* C13 witness: a vector holding two items was cleared.
C13_Witness ==
  /\ recv = "vec"
  /\ call.op = "StrVec::clear"
  /\ VecLen(prev) = 2

\* The spans of the items of v, as find_nth_span gives them.
Spans(v) == [k \in 1..VecLen(v) |-> FindNthSpan(v.bitmap, k - 1).val]

\* C14: in every state reachable from new() by push and clear, each stored item
\* takes at least one byte, all items together take at most N bytes, len() is the
\* number of successful pushes since new()/clear(), and so len() <= N, with
\* len() = N only when every item takes exactly one byte.
C14_CapacityInvariant ==
  recv = "vec" =>
    /\ VecLen(vec) = Len(pushed)
    /\ \A k \in 1..VecLen(vec) : Spans(vec)[k][2] - Spans(vec)[k][1] >= 1
    /\ BytesUsed(pushed) <= N
    /\ (VecLen(vec) > 0) => (Spans(vec)[VecLen(vec)][2] <= N)
    /\ VecLen(vec) <= N
    /\ (VecLen(vec) = N)
         => \A k \in 1..N : Spans(vec)[k][2] - Spans(vec)[k][1] = 1

\* C14 witness: the vector holds N items, one of them pushed as the empty string.
C14_Witness ==
  /\ recv = "vec"
  /\ VecLen(vec) = N
  /\ \E k \in 1..Len(pushed) : pushed[k] = <<>>

\* The positions of the set bits of a bitmap (position 0 = most significant bit).
SetBits(value) == {p \in 0..(W - 1) : BitAt(value, p)}

\* The bytes taken by the first j strings of a history.
Cumulative(h, j) == BytesUsed(SubSeq(h, 1, j))

\* C16: in every vector state reachable by push and clear, the set bits of the
\* bitmap are exactly the positions c1-1 < c2-1 < ... < ck-1, cj being the
\* cumulative stored length of the first j items; no bit at a position >= N is
\* set, and no push sets a bit that is already set.
C16_BoundaryBits ==
  recv = "vec" =>
    /\ SetBits(vec.bitmap) = {Cumulative(pushed, j) - 1 : j \in 1..Len(pushed)}
    /\ \A j \in 1..Len(pushed) :
         FindNthSpan(vec.bitmap, j - 1).val[2] = Cumulative(pushed, j)
    /\ \A p \in N..(W - 1) : ~BitAt(vec.bitmap, p)
    /\ (call.op = "StrVec::push" /\ res.tag = "Ok")
         => /\ ~BitAt(prev.bitmap, BytesUsed(pushed) - 1)
            /\ SetBits(vec.bitmap) = SetBits(prev.bitmap) \cup {BytesUsed(pushed) - 1}

\* C16 witness: a two-byte item followed by a one-byte item (bits 1 and 2).
C16_Witness ==
  /\ recv = "vec"
  /\ Len(pushed) = 2
  /\ Len(pushed[1]) = 2
  /\ SetBits(vec.bitmap) = {1, 2}

\* C17: in every reachable vector state, the empty vector included,
\* next_offset() = W - trailing_zeros(bitmap) is the number of bytes taken by the
\* items pushed so far, and the next push writes at that offset.
C17_NextOffsetIsBytesUsed ==
  recv = "vec" =>
    /\ NextOffset(vec) = BytesUsed(pushed)
    /\ (vec.bitmap = 0) => (NextOffset(vec) = 0)
    /\ (call.op = "StrVec::push" /\ res.tag = "Ok")
         => Slice(vec.data, UsedBefore, BytesUsed(pushed)) = Stored(call.arg)

\* C17 witness: two pushes filled the vector, so next_offset() is N.
C17_Witness ==
  /\ recv = "vec"
  /\ Len(pushed) = 2
  /\ NextOffset(vec) = N

\* C20: in every state reachable from new() by push and clear (failed pushes
\* included), every buffer byte at an index >= next_offset() is NUL, and an item
\* pushed as the empty string is stored as exactly one NUL byte.
C20_ZeroPadding ==
  recv = "vec" =>
    /\ \A k \in (NextOffset(vec) + 1)..N : vec.data[k] = 0
    /\ (call.op = "StrVec::push" /\ res.tag = "Ok" /\ call.arg = <<>>)
         => /\ FindNthSpan(vec.bitmap, VecLen(vec) - 1)
                 = Some(<<NextOffset(prev), NextOffset(prev) + 1>>)
            /\ vec.data[NextOffset(prev) + 1] = 0

\* C20 witness: a push was refused by a vector that holds an empty item and has
\* a free byte left.
C20_Witness ==
  /\ recv = "vec"
  /\ call.op = "StrVec::push"
  /\ res.tag = "Err"
  /\ NextOffset(vec) < N
  /\ \E k \in 1..Len(pushed) : pushed[k] = <<>>

(***************************************************************************)
(* StrVec::iter (str_vec.rs), one call of the iterator's next() per step,  *)
(* beside push, clear and get.  The vector is borrowed while an iterator   *)
(* is alive, so push and clear run only when there is none.  The histories  *)
(* `pushed` and `prev` are not kept here.                                  *)
(***************************************************************************)

\* A slice index out of range, which panics.
Panic == [tag |-> "Panic", length |-> 0, capacity |-> 0, val |-> <<>>]

\* Indices that get is called with.
GetArgs == 0..N

\* A range that runs over the capacity instead of the length.
IterRangeCapacity(v) == N

\* The number of items the iterator yields: the range `(0..self.len())`
IterRange(v) == VecLen(v)

\* A closure that reads every span from the offset it started at.
IterClosureKeepOffset(data, f) ==
  LET end == LeadingZeros(f.bitmap) IN
  IF f.offset > end + 1 \/ end + 1 > N
  THEN [frame |-> [f EXCEPT !.pc = "panic"],
        acc |-> Access({}, {}, {<<f.offset, end + 1>>})]
  ELSE [frame |-> [f EXCEPT !.bitmap = Unset(f.bitmap, end),
                            !.yielded = Append(f.yielded,
                                               Decode(Slice(data, f.offset, end + 1)))],
        acc |-> Access({}, {end}, {<<f.offset, end + 1>>})]

\* The closure of iter(), run once on the frame f of the iterator: the frame
\* afterwards (with the item appended to those yielded) and the slice and bit it
\* used.  The slice data[offset..end + 1] panics when it is out of range.
IterClosure(data, f) ==
  LET end == LeadingZeros(f.bitmap) IN
  IF f.offset > end + 1 \/ end + 1 > N
  THEN [frame |-> [f EXCEPT !.pc = "panic"],
        acc |-> Access({}, {}, {<<f.offset, end + 1>>})]
  ELSE [frame |-> [f EXCEPT !.offset = end + 1,
                            !.bitmap = Unset(f.bitmap, end),
                            !.yielded = Append(f.yielded,
                                               Decode(Slice(data, f.offset, end + 1)))],
        acc |-> Access({}, {end}, {<<f.offset, end + 1>>})]

InitIter ==
  /\ recv = "iter"
  /\ vec = StrVecNew
  /\ other = StrVecNew
  /\ pushed = <<>>
  /\ bstr = BoundedStrNew
  /\ content = <<>>
  /\ fstr = FixedStrNew
  /\ call = NoCall
  /\ res = Ok
  /\ prev = StrVecNew
  /\ split = NoSplit
  /\ it = NoIter
  /\ scan = NoScan
  /\ acc = NoAccess
  /\ bother = BoundedStrNew

\* vec.push(s), with no iterator alive
IterPush(s) ==
  LET r == Push(vec, s) IN
  /\ recv = "iter"
  /\ it.pc = "idle"
  /\ vec' = r.vec
  /\ res' = r.res
  /\ acc' = r.acc
  /\ call' = [op |-> "StrVec::push", arg |-> s, ch |-> 0]
  /\ it' = NoIter
  /\ UNCHANGED <<bother, scan, split, recv, other, pushed, bstr, content, fstr, prev>>

\* vec.clear(), with no iterator alive
IterClear ==
  /\ recv = "iter"
  /\ it.pc = "idle"
  /\ vec' = Clear(vec)
  /\ res' = Ok
  /\ acc' = NoAccess
  /\ call' = [op |-> "StrVec::clear", arg |-> <<>>, ch |-> 0]
  /\ it' = NoIter
  /\ UNCHANGED <<bother, scan, split, recv, other, pushed, bstr, content, fstr, prev>>

\* vec.get(index): the slice data[offset..end] panics when it is out of range.
GetOp(index) ==
  LET sp == FindNthSpan(vec.bitmap, index)
      out == sp.tag = "Some" /\ (sp.val[1] > sp.val[2] \/ sp.val[2] > N)
  IN
  /\ recv = "iter"
  /\ it.pc # "panic"
  /\ res' = IF out THEN Panic ELSE Get(vec, index)
  /\ acc' = Access({}, {}, IF sp.tag = "Some" THEN {sp.val} ELSE {})
  /\ call' = [op |-> "StrVec::get", index |-> index]
  /\ UNCHANGED <<bother, it, scan, split, recv, vec, other, pushed, bstr, content, fstr, prev>>

\* let mut iter = vec.iter()
IterBegin ==
  /\ recv = "iter"
  /\ it.pc = "idle"
  /\ it' = [pc |-> "running", offset |-> 0, bitmap |-> vec.bitmap,
            i |-> 0, len |-> IterRange(vec),
            yielded |-> <<>>, src |-> vec, last |-> it.last]
  /\ acc' = NoAccess
  /\ UNCHANGED <<bother, scan, split, recv, vec, other, pushed, bstr, content, fstr,
                 call, res, prev>>

\* iter.next(): the range gives the next index and the closure runs, or the
\* range is at its end and next() returns None.
IterNext ==
  /\ recv = "iter"
  /\ it.pc = "running"
  /\ IF it.i >= it.len
     THEN /\ it' = [it EXCEPT !.pc = "exhausted"]
          /\ acc' = NoAccess
     ELSE LET r == IterClosure(vec.data, [it EXCEPT !.i = it.i + 1]) IN
          /\ it' = r.frame
          /\ acc' = r.acc
  /\ UNCHANGED <<bother, scan, split, recv, vec, other, pushed, bstr, content, fstr,
                 call, res, prev>>

\* drop(iter); a traversal that ran to its end is remembered in `last`.
IterDrop ==
  /\ recv = "iter"
  /\ it.pc \in {"running", "exhausted"}
  /\ it' = [NoIter EXCEPT !.last = IF it.pc = "exhausted" THEN Some(it.yielded)
                                   ELSE it.last]
  /\ UNCHANGED <<bother, acc, scan, split, recv, vec, other, pushed, bstr, content, fstr,
                 call, res, prev>>

NextIter ==
  \/ \E s \in Args : IterPush(s)
  \/ IterClear
  \/ \E index \in GetArgs : GetOp(index)
  \/ IterBegin
  \/ IterNext
  \/ IterDrop

SpecIter == InitIter /\ [][NextIter]_vars

\* C12: for every reachable vector get(i) is None exactly for i >= len(); an
\* iterator yields exactly len() items, the i-th of them equal to get(i); the
\* vector is not changed by iterating, and a second iter() yields the sequence
\* that the first one yielded.
C12_IterAgreesWithGet ==
  recv = "iter" =>
    /\ \A i \in 0..W : (i >= VecLen(vec)) <=> (Get(vec, i) = None)
    /\ it.pc # "panic"
    /\ (it.pc \in {"running", "exhausted"})
         => /\ vec = it.src
            /\ Len(it.yielded) = it.i
            /\ it.i <= VecLen(vec)
            /\ \A k \in 1..Len(it.yielded) : Get(vec, k - 1) = Some(it.yielded[k])
    /\ (it.pc = "exhausted")
         => /\ Len(it.yielded) = VecLen(vec)
            /\ it.yielded = Iter(vec)
            /\ (it.last.tag = "Some") => (it.yielded = it.last.val)

\* C12 witness: a second iterator over a vector of two items, the first of them
\* empty, has run to its end.
C12_Witness ==
  /\ recv = "iter"
  /\ it.pc = "exhausted"
  /\ it.last.tag = "Some"
  /\ VecLen(vec) = 2
  /\ it.yielded[1] = <<>>

\* C19: with a bitmap at least as wide as the capacity (W >= N), every offset
\* that push hands to set and that iter() hands to unset is below W, and every
\* slice data[lo..hi] taken by push, get and iter lies within the N-byte buffer,
\* so none of them panics.
C19_PreconditionsMet ==
  (recv = "iter" /\ W >= N) =>
    /\ it.pc # "panic"
    /\ res.tag # "Panic"
    /\ \A o \in acc.set \cup acc.unset : 0 <= o /\ o < W
    /\ \A sl \in acc.slices : 0 <= sl[1] /\ sl[1] <= sl[2] /\ sl[2] <= N

\* C19 witness: the iterator took the slice data[0..N] of a vector filled by one
\* item, and cleared the bit of the last byte.
C19_Witness ==
  /\ recv = "iter"
  /\ it.pc = "running"
  /\ acc = Access({}, {N - 1}, {<<0, N>>})

(***************************************************************************)
(* Bitmap::find_nth_span (bitmap.rs) on any mask, one test of the loop     *)
(* condition per step.                                                     *)
(***************************************************************************)

\* The masks and the indices that find_nth_span is called with.
ScanMasks == 0..(Pow2(W) - 1)
ScanArgs == 0..W

\* A loop body that does not move the start of the next span.
FindNthSpanBodyKeepStart(f) ==
  LET end == LeadingZeros(f.value) IN
  IF f.count = f.n
  THEN [f EXCEPT !.pc = "done", !.ret = Some(<<f.start, end + 1>>)]
  ELSE [f EXCEPT !.value = Unset(f.value, end),
                 !.count = f.count + 1]

\* The body of the loop of find_nth_span, run on the frame f.
FindNthSpanBody(f) ==
  LET end == LeadingZeros(f.value) IN
  IF f.count = f.n
  THEN [f EXCEPT !.pc = "done", !.ret = Some(<<f.start, end + 1>>)]
  ELSE [f EXCEPT !.value = Unset(f.value, end),
                 !.start = end + 1,
                 !.count = f.count + 1]

\* A call self.find_nth_span(n) is about to be made, for any mask and any n;
\* `arg` keeps the mask the call was made on.
InitSpan ==
  /\ recv = "span"
  /\ vec = StrVecNew
  /\ other = StrVecNew
  /\ pushed = <<>>
  /\ bstr = BoundedStrNew
  /\ content = <<>>
  /\ fstr = FixedStrNew
  /\ call = NoCall
  /\ res = Ok
  /\ prev = StrVecNew
  /\ split = NoSplit
  /\ it = NoIter
  /\ acc = NoAccess
  /\ bother = BoundedStrNew
  /\ \E mask \in ScanMasks, n \in ScanArgs :
       scan = [NoScan EXCEPT !.pc = "call", !.self = mask, !.arg = mask, !.n = n]

\* let mut value = *self; let mut start = 0; let mut count = 0;
ScanEnter ==
  /\ recv = "span"
  /\ scan.pc = "call"
  /\ scan' = [scan EXCEPT !.pc = "loop", !.value = scan.self,
                          !.start = 0, !.count = 0, !.iterations = 0]
  /\ UNCHANGED <<bother, it, acc, split, recv, vec, other, pushed, bstr, content, fstr,
                 call, res, prev>>

\* while value != 0 { body }; None
ScanLoop ==
  /\ recv = "span"
  /\ scan.pc = "loop"
  /\ IF scan.value # 0
     THEN scan' = FindNthSpanBody([scan EXCEPT !.iterations = scan.iterations + 1])
     ELSE scan' = [scan EXCEPT !.pc = "done", !.ret = None]
  /\ UNCHANGED <<bother, it, acc, split, recv, vec, other, pushed, bstr, content, fstr,
                 call, res, prev>>

NextSpan ==
  \/ ScanEnter
  \/ ScanLoop

SpecSpan == InitSpan /\ [][NextSpan]_vars

\* The k-th (from 0) smallest member of a set of positions.
NthPosition(P, k) == CHOOSE p \in P : Cardinality({q \in P : q < p}) = k

\* C18: on a W-bit mask with set bits at positions p0 < ... < p(m-1),
\* find_nth_span(n) returns (0, p0+1) for n = 0, (p(n-1)+1, pn+1) for 0 < n < m,
\* and None for every n >= m; it leaves the mask as it was, and its loop body
\* runs at most n+1 times.
C18_FindNthSpan ==
  recv = "span" =>
    LET P == SetBits(scan.arg)
        m == Cardinality(P)
        n == scan.n
    IN
    /\ scan.self = scan.arg
    /\ scan.iterations <= n + 1
    /\ (scan.pc = "loop") => (scan.iterations = scan.count /\ scan.count <= n)
    /\ (scan.pc = "done") =>
         /\ (n >= m) => (scan.ret = None)
         /\ (n = 0 /\ n < m) => (scan.ret = Some(<<0, NthPosition(P, 0) + 1>>))
         /\ (0 < n /\ n < m)
              => (scan.ret = Some(<<NthPosition(P, n - 1) + 1, NthPosition(P, n) + 1>>))
         /\ scan.ret = FindNthSpan(scan.arg, n)

\* C18 witness: the third span of a mask with bits 0, 2 and W-1 set is (3, W),
\* found in three runs of the loop body.
C18_Witness ==
  /\ recv = "span"
  /\ scan.pc = "done"
  /\ SetBits(scan.arg) = {0, 2, W - 1}
  /\ scan.n = 2
  /\ scan.ret = Some(<<3, W>>)
  /\ scan.iterations = 3

(***************************************************************************)
(* Two BoundedStr values of one type, each built by constructors and       *)
(* pushes, and their derived comparison.                                   *)
(***************************************************************************)

\* #[derive(PartialEq, Eq)] on BoundedStr: all fields equal (align is empty).
BoundedEq(a, b) == a.length = b.length /\ a.data = b.data

\* #[derive(PartialOrd, Ord)] on BoundedStr: the fields in the order they are
\* declared, length before data (align is empty and compares Equal).
BoundedCmp(a, b) ==
  IF a.length < b.length THEN "Less"
  ELSE IF a.length > b.length THEN "Greater"
  ELSE ArrayCmpFrom(a.data, b.data, 1)

InitBoundedPair ==
  /\ recv = "bpair"
  /\ vec = StrVecNew
  /\ other = StrVecNew
  /\ pushed = <<>>
  /\ bstr = BoundedStrNew
  /\ content = <<>>
  /\ fstr = FixedStrNew
  /\ call = NoCall
  /\ res = Ok
  /\ prev = BoundedStrNew
  /\ split = NoSplit
  /\ it = NoIter
  /\ scan = NoScan
  /\ acc = NoAccess
  /\ bother = BoundedStrNew

\* if let Ok(b) = BoundedStr::try_from(s) { bstr = b }
BoundedPairTryFrom(s) ==
  LET r == BoundedTryFrom(s) IN
  /\ recv = "bpair"
  /\ bstr' = IF r.tag = "Ok" THEN r.val ELSE bstr
  /\ UNCHANGED <<bother, it, scan, acc, split, recv, vec, other, pushed, content,
                 fstr, call, res, prev>>

\* if let Ok(b) = BoundedStr::try_from(s) { bother = b }
BoundedPairTryFromOther(s) ==
  LET r == BoundedTryFrom(s) IN
  /\ recv = "bpair"
  /\ bother' = IF r.tag = "Ok" THEN r.val ELSE bother
  /\ UNCHANGED <<bstr, it, scan, acc, split, recv, vec, other, pushed, content,
                 fstr, call, res, prev>>

\* let _ = bstr.push_str(s)
BoundedPairPushStr(s) ==
  /\ recv = "bpair"
  /\ bstr' = PushStr(bstr, s).bstr
  /\ UNCHANGED <<bother, it, scan, acc, split, recv, vec, other, pushed, content,
                 fstr, call, res, prev>>

\* let _ = bother.push_str(s)
BoundedPairPushStrOther(s) ==
  /\ recv = "bpair"
  /\ bother' = PushStr(bother, s).bstr
  /\ UNCHANGED <<bstr, it, scan, acc, split, recv, vec, other, pushed, content,
                 fstr, call, res, prev>>

\* let _ = bstr.push(c)
BoundedPairPushChar(c) ==
  /\ recv = "bpair"
  /\ bstr' = PushChar(bstr, c).bstr
  /\ UNCHANGED <<bother, it, scan, acc, split, recv, vec, other, pushed, content,
                 fstr, call, res, prev>>

\* let _ = bother.push(c)
BoundedPairPushCharOther(c) ==
  /\ recv = "bpair"
  /\ bother' = PushChar(bother, c).bstr
  /\ UNCHANGED <<bstr, it, scan, acc, split, recv, vec, other, pushed, content,
                 fstr, call, res, prev>>

NextBoundedPair ==
  \/ \E s \in CtorArgs : BoundedPairTryFrom(s)
  \/ \E s \in CtorArgs : BoundedPairTryFromOther(s)
  \/ \E s \in Args : BoundedPairPushStr(s)
  \/ \E s \in Args : BoundedPairPushStrOther(s)
  \/ \E c \in Chars : BoundedPairPushChar(c)
  \/ \E c \in Chars : BoundedPairPushCharOther(c)

SpecBoundedPair == InitBoundedPair /\ [][NextBoundedPair]_vars

\* <str as Ord>::cmp: byte-lexicographic, a proper prefix being Less.
RECURSIVE StrCmpFrom(_, _, _)
StrCmpFrom(x, y, k) ==
  IF k > Len(x) /\ k > Len(y) THEN "Equal"
  ELSE IF k > Len(x) THEN "Less"
  ELSE IF k > Len(y) THEN "Greater"
  ELSE IF x[k] < y[k] THEN "Less"
  ELSE IF x[k] > y[k] THEN "Greater"
  ELSE StrCmpFrom(x, y, k + 1)

StrCmp(x, y) == StrCmpFrom(x, y, 1)

\* C23: for two BoundedStr values of one type built by constructors and pushes,
\* the derived cmp(a, b) is the byte-lexicographic ordering of a.as_str()
\* against b.as_str(), and a == b holds exactly when the texts are equal.
C23_CmpIsTextOrder ==
  recv = "bpair" =>
    /\ BoundedCmp(bstr, bother) = StrCmp(AsStr(bstr), AsStr(bother))
    /\ BoundedEq(bstr, bother) <=> (AsStr(bstr) = AsStr(bother))

\* The part of C23 about equality alone.
C23_EqIsTextEq ==
  recv = "bpair" =>
    /\ BoundedEq(bstr, bother) <=> (AsStr(bstr) = AsStr(bother))
    /\ (BoundedCmp(bstr, bother) = "Equal") <=> BoundedEq(bstr, bother)

====
